---- MODULE Spec2Model ----
(***************************************************************************)
(* Shape-level model of the inversion attacker (models/attackers/          *)
(* inversion_attacker_1.py) and of its driver (train_attacker.py).         *)
(*                                                                         *)
(* A tensor is its shape [b, c, h, w] plus an identity tag `id`: the       *)
(* position at which the Encoder appended it to the feature list, or       *)
(* NoId for any other tensor.  Every layer is the shape function of the    *)
(* torch layer the source constructs, errors included.                     *)
(*                                                                         *)
(* Specifications:                                                         *)
(*   Spec         the three step functions of a constructed UNet           *)
(*   SpecEncoder  Encoder.forward called directly                          *)
(*   SpecCrop     Decoder.crop called directly                             *)
(*   SpecTrain    a fit: configure_optimizers, steps, backward, Adam       *)
(*   SpecDriver   one run of train_model(args)                             *)
(***************************************************************************)
EXTENDS Integers, Naturals, Sequences, FiniteSets, TLC

VARIABLES
    enc_chs,          \* UNet/Encoder channel schedule (enc_chs / chs)
    dec_chs,          \* Decoder channel schedule (dec_chs / self.chs)
    change_channels,  \* output channel count of the channel-remapping module
    op,               \* the call made last ("none" before any call)
    x,                \* the tensor (image batch) handed to that call
    enc_ftrs,         \* crop's first argument (the encoder feature)
    ganRes,           \* the tuple self.gan(x) returned to the last test_step
    res,              \* what the call produced
    gan,              \* self.gan: "None" or "module"
    encoding_layer,   \* self.change_channels: "None" or "module"
    optimizer,        \* the parameter groups handed to Adam
    value,            \* per parameter group, the updates applied since load
    grad,             \* the parameter groups whose .grad is set
    tpc,              \* where the fit loop stands
    steps,            \* optimizer steps taken
    args,             \* train_model's argument namespace
    fs,               \* the checkpoint directories train_model lists
    pc,               \* train_model's position ("off" outside a run)
    err,              \* the exception that ended the run, if any
    generator,        \* train_model's local `generator`
    gan_last_ckpt,    \* the upstream checkpoint file selected (0: none)
    called            \* the model/trainer entry points invoked, in order

netVars == <<enc_chs, dec_chs, change_channels, op, x, enc_ftrs, ganRes, res>>

trainVars == <<gan, encoding_layer, optimizer, value, grad, tpc, steps>>

drvVars == <<args, fs, pc, err, generator, gan_last_ckpt, called>>

vars == <<netVars, trainVars, drvVars>>

(***************************************************************************)
(* Bounds of the model                                                     *)
(***************************************************************************)
MaxSize == 9        \* spatial sizes 1..MaxSize are tried (next to 16 and 32)
MaxStages == 4      \* an Encoder has 1..MaxStages blocks
MaxSteps == 3       \* optimizer steps of a fit
MaxFiles == 2       \* regular files in a checkpoints directory

(***************************************************************************)
(* Program constants                                                       *)
(***************************************************************************)
BatchSize == 4          \* dataloaders/cifar100_loader.py: batch_size=4
ImageChannels == 3      \* RGB, Normalize((0.5,0.5,0.5),...)
DefaultInCh == 6        \* enc_chs[0] of the default schedule
BaseCh == 64            \* enc_chs[1] of the default schedule
num_classes == 3        \* train_model: num_classes = 3
OutSz == 32             \* out_sz=(32,32)
UpsampleSize == 32      \* nn.Upsample(size=(32,32))
PoolKernel == 2         \* nn.MaxPool2d(2)
UpStride == 2           \* nn.ConvTranspose2d(.., 2, 2)
HoiIn == 6              \* nn.ConvTranspose2d(6,3,1) in test_step
HoiOut == 3
GanFeatSize == 16       \* spatial size of the upstream encoded feature
NoId == 0 - 1

retain_dim == TRUE

(***************************************************************************)
(* Tensors                                                                 *)
(***************************************************************************)
Tensor(b, c, h, w) == [b |-> b, c |-> c, h |-> h, w |-> w, id |-> NoId]

NoTensor == Tensor(0, 0, 0, 0)

Tagged(t, i) == [t EXCEPT !.id = i]

Sizes == 1..MaxSize

StepSizes == Sizes \cup {GanFeatSize, OutSz}

InChannels == {ImageChannels, DefaultInCh}

RECURSIVE Pow2(_)
Pow2(k) == IF k = 0 THEN 1 ELSE 2 * Pow2(k - 1)

(***************************************************************************)
(* Layers.  A layer applied to t gives [err, t]; err = "none" on success.  *)
(***************************************************************************)
Ok(t) == [err |-> "none", t |-> t]

Fail(e) == [err |-> e, t |-> NoTensor]

\* nn.Conv2d(in_ch, out_ch, 3, padding=1): same spatial size; the input must
\* carry in_ch channels.
Conv2d(in_ch, out_ch, t) ==
    IF t.c # in_ch THEN Fail("channel_mismatch")
    ELSE Ok(Tensor(t.b, out_ch, t.h, t.w))

\* Block: six same-padding convolutions, the first in_ch -> out_ch, the
\* others out_ch -> out_ch (ReLU keeps the shape).
Block(in_ch, out_ch, t) ==
    LET first == Conv2d(in_ch, out_ch, t)
    IN  IF first.err # "none" THEN first ELSE Conv2d(out_ch, out_ch, first.t)

\* nn.MaxPool2d(2): floor(size / 2); torch raises "Output size is too small"
\* when an output dimension would be 0.
MaxPool2d(t) ==
    IF t.h \div PoolKernel = 0 \/ t.w \div PoolKernel = 0
    THEN Fail("pool_output_too_small")
    ELSE Ok(Tensor(t.b, t.c, t.h \div PoolKernel, t.w \div PoolKernel))

(***************************************************************************)
(* Encoder                                                                 *)
(***************************************************************************)
\* Encoder.__init__: one Block(chs[i], chs[i+1]) per schedule transition.
NumBlocks(chs) == Len(chs) - 1

\* Encoder.forward: the loop over enc_blocks from block i on, ftrs being the
\* list built so far.  Sequences are 1-based: block i is Block(chs[i], chs[i+1])
\* and the feature it appends gets list position (id) Len(ftrs), 0-based.
RECURSIVE EncoderLoop(_, _, _, _)
EncoderLoop(chs, t, i, ftrs) ==
    IF i > NumBlocks(chs) THEN [err |-> "none", ftrs |-> ftrs]
    ELSE LET blk == Block(chs[i], chs[i + 1], t)
         IN  IF blk.err # "none" THEN [err |-> blk.err, ftrs |-> <<>>]
             ELSE LET pooled == MaxPool2d(blk.t)
                  IN  IF pooled.err # "none"
                      THEN [err |-> pooled.err, ftrs |-> <<>>]
                      ELSE EncoderLoop(chs, pooled.t, i + 1,
                                       Append(ftrs, Tagged(blk.t, Len(ftrs))))

EncoderForward(chs, t) == EncoderLoop(chs, t, 1, <<>>)

(***************************************************************************)
(* Decoder                                                                 *)
(***************************************************************************)
\* A faulty ConvTranspose2d: built with chs[i] output channels, so that the
\* upsampled tensor keeps the running tensor's width.
ConvTranspose2dKeepsWidth(in_ch, out_ch, t) ==
    IF t.c # in_ch THEN [err |-> "channel_mismatch", t |-> Tensor(0, 0, 0, 0)]
    ELSE [err |-> "none", t |-> Tensor(t.b, in_ch, t.h * UpStride, t.w * UpStride)]

\* nn.ConvTranspose2d(in_ch, out_ch, 2, 2): (size - 1) * 2 + 2 = 2 * size.
ConvTranspose2d(in_ch, out_ch, t) ==
    IF t.c # in_ch THEN Fail("channel_mismatch")
    ELSE Ok(Tensor(t.b, out_ch, t.h * UpStride, t.w * UpStride))

\* Python's round(d / 2.) for an integer d >= 0: halves go to the even
\* neighbour.
RoundHalfEven(d) ==
    IF d % 2 = 0 THEN d \div 2
    ELSE IF (d \div 2) % 2 = 0 THEN d \div 2 ELSE (d \div 2) + 1

\* int(round(d / 2.)) for any integer d: round(-v) = -round(v).
RoundHalf(d) == IF d >= 0 THEN RoundHalfEven(d) ELSE 0 - RoundHalfEven(0 - d)

\* Length of the Python slice [start:stop] of a dimension of length len
\* (negative indices count from the end, out-of-range ones are clipped).
SliceLen(len, start, stop) ==
    LET norm(k) == IF k < 0 THEN (IF len + k < 0 THEN 0 ELSE len + k)
                   ELSE (IF k > len THEN len ELSE k)
        lo == norm(start)
        hi == norm(stop)
    IN  IF hi > lo THEN hi - lo ELSE 0

Max(a, b) == IF a >= b THEN a ELSE b

TorchvisionBuilds == {"legacy", "current"}

\* torchvision.transforms.CenterCrop([H, W])(img).  Which tensor comes back
\* when the target exceeds the image depends on the installed torchvision:
\*   "current" (>= 0.9) zero-pads the image up to the target, then crops;
\*   "legacy"  (0.8)    slices img[..., top:top+H, left:left+W] with a
\*                      negative top/left, which returns fewer rows/columns.
\* Neither raises.  top/left are the crop's offsets in the (padded) image.
CenterCrop(tv, img, H, W) ==
    LET pads == (H > img.h \/ W > img.w) /\ tv = "current"
        ih   == IF pads THEN Max(img.h, H) ELSE img.h
        iw   == IF pads THEN Max(img.w, W) ELSE img.w
        top  == RoundHalf(ih - H)
        left == RoundHalf(iw - W)
    IN  [t      |-> [img EXCEPT !.h = SliceLen(ih, top, top + H),
                                !.w = SliceLen(iw, left, left + W)],
         top    |-> top,
         left   |-> left,
         padded |-> pads]

\* Decoder.crop(enc_ftrs, x): center-crop enc_ftrs to x's H x W.
crop(tv, ftr, t) == CenterCrop(tv, ftr, t.h, t.w)

\* torch.cat([a, b], dim=1): all dimensions but the channels must agree.
Cat(a, b) ==
    IF a.b # b.b \/ a.h # b.h \/ a.w # b.w THEN Fail("cat_size_mismatch")
    ELSE Ok(Tensor(a.b, a.c + b.c, a.h, a.w))

\* Decoder.forward: the loop from stage i on (stage i of the source is
\* i - 1 here).  skips collects the ids of the encoder features consumed.
RECURSIVE DecoderLoop(_, _, _, _, _, _)
DecoderLoop(tv, chs, t, encoder_features, i, skips) ==
    IF i > Len(chs) - 1 THEN [err |-> "none", t |-> t, skips |-> skips]
    ELSE LET up == ConvTranspose2d(chs[i], chs[i + 1], t)
         IN  IF up.err # "none" THEN [err |-> up.err, t |-> NoTensor, skips |-> skips]
             ELSE IF i > Len(encoder_features)
             THEN [err |-> "index_error", t |-> NoTensor, skips |-> skips]
             ELSE LET ftr  == crop(tv, encoder_features[i], up.t).t
                      cat  == Cat(up.t, ftr)
                      used == Append(skips, encoder_features[i].id)
                  IN  IF cat.err # "none"
                      THEN [err |-> cat.err, t |-> NoTensor, skips |-> used]
                      ELSE LET blk == Block(chs[i], chs[i + 1], cat.t)
                           IN  IF blk.err # "none"
                               THEN [err |-> blk.err, t |-> NoTensor, skips |-> used]
                               ELSE DecoderLoop(tv, chs, blk.t, encoder_features,
                                                i + 1, used)

DecoderForward(tv, chs, t, encoder_features) ==
    DecoderLoop(tv, chs, t, encoder_features, 1, <<>>)

(***************************************************************************)
(* Channel schedules                                                       *)
(***************************************************************************)
\* <<c0, 64, 128, ...>> with n transitions: the shape of the source's
\* defaults (6,64,128,256,512) and (6,64,128,256,512,1024).
EncSchedule(c0, n) == [i \in 1..(n + 1) |-> IF i = 1 THEN c0 ELSE BaseCh * Pow2(i - 2)]

\* The decoder schedule with m stages that starts at the encoder's last
\* width and halves: (512,256,128,64) for the default encoder and m = 3.
DecSchedule(chs, m) == [i \in 1..(m + 1) |-> chs[Len(chs)] \div Pow2(i - 1)]

DefaultEncChs == <<6, 64, 128, 256, 512>>

DefaultDecChs == <<512, 256, 128, 64>>

(***************************************************************************)
(* Results                                                                 *)
(***************************************************************************)
NoRes == [err |-> "none", ftrs |-> <<>>, seed |-> NoId, skips |-> <<>>,
          dec |-> NoTensor, out |-> NoTensor, top |-> 0, left |-> 0,
          padded |-> FALSE]

(***************************************************************************)
(* Parameters                                                              *)
(***************************************************************************)
Trainable == {"encoder", "decoder", "head"}

Frozen == {"gan", "change_channels"}

Groups == Trainable \cup Frozen

\* UNet.__init__: the submodules registered on the model.  Assigning an
\* nn.Module to an attribute registers it; None registers nothing.
Registered ==
    Trainable \cup (IF gan = "module" THEN {"gan"} ELSE {})
              \cup (IF encoding_layer = "module" THEN {"change_channels"} ELSE {})

\* self.parameters(): the parameters of every registered submodule.
Parameters == Registered

\* requires_grad of a group's parameters.  `self.gan.requires_grad = False`
\* and `self.change_channels.requires_grad = False` set a plain attribute of
\* the module object; no parameter's flag changes.
RequiresGrad(g) == TRUE

NoErr == [kind |-> "none", line |-> 0, path |-> FALSE]

NoArgs == [training |-> TRUE, progress_bar |-> FALSE, load_gan |-> "None",
           load_dict |-> "None", gan_model |-> "Complex_LeNet",
           dataset |-> "CIFAR-10"]

\* No run of train_model: the state of the driver in the specifications of
\* the model alone.
DriverOff ==
    /\ args = NoArgs
    /\ fs = [gan |-> 0, dict |-> 0, gan_loads |-> TRUE]
    /\ pc = "off"
    /\ err = NoErr
    /\ generator = "unset"
    /\ gan_last_ckpt = 0
    /\ called = <<>>

\* The fit loop at rest, both collaborators set: the state of the model in
\* the specifications that only look at shapes.
TrainIdle ==
    /\ DriverOff
    /\ gan = "module"
    /\ encoding_layer = "module"
    /\ optimizer = {}
    /\ value = [g \in Groups |-> 0]
    /\ grad = {}
    /\ tpc = "idle"
    /\ steps = 0

(***************************************************************************)
(* UNet: the three step functions                                          *)
(***************************************************************************)
\* A faulty Reversed: the pyramid handed on in production order (no [::-1]).
NotReversed(seq) == seq

\* seq[::-1]
Reversed(seq) == [i \in 1..Len(seq) |-> seq[Len(seq) + 1 - i]]

\* self.head = nn.Conv2d(dec_chs[-1], num_classes, 1): a 1x1 projection.
head(chs, t) == Conv2d(chs[Len(chs)], num_classes, t)

\* F.interpolate(out, self.out_sz)
Interpolate(t) == Tensor(t.b, t.c, OutSz, OutSz)

\* self.upsample = nn.Upsample(size=(32,32))
Upsample(t) == Tensor(t.b, t.c, UpsampleSize, UpsampleSize)

\* nn.MSELoss()(out, target) broadcasts its arguments: each dimension must
\* agree or be 1 in one of them, else torch raises.
Broadcastable(a, b) ==
    /\ a.b = b.b \/ a.b = 1 \/ b.b = 1
    /\ a.c = b.c \/ a.c = 1 \/ b.c = 1
    /\ a.h = b.h \/ a.h = 1 \/ b.h = 1
    /\ a.w = b.w \/ a.w = 1 \/ b.w = 1

\* The lines the three step functions share: encoder, reversed pyramid into
\* the decoder, head, resize, loss against the original batch `orig`.
Reconstruct(tv, x2, orig) ==
    LET e == EncoderForward(enc_chs, x2)
    IN  IF e.err # "none" THEN [NoRes EXCEPT !.err = e.err]
        ELSE
        LET rev  == Reversed(e.ftrs)
            d    == DecoderForward(tv, dec_chs, rev[1], Tail(rev))
            part == [NoRes EXCEPT !.ftrs = e.ftrs, !.seed = rev[1].id,
                                  !.skips = d.skips]
        IN  IF d.err # "none" THEN [part EXCEPT !.err = d.err]
            ELSE
            LET hd == head(dec_chs, d.t)
            IN  IF hd.err # "none" THEN [part EXCEPT !.err = hd.err, !.dec = d.t]
                ELSE
                LET o == IF retain_dim THEN Interpolate(hd.t) ELSE hd.t
                IN  IF ~Broadcastable(o, orig)
                    THEN [part EXCEPT !.err = "loss_shape_mismatch",
                                      !.dec = d.t, !.out = o]
                    ELSE [part EXCEPT !.dec = d.t, !.out = o]

\* x2 = self.change_channels(x): the frozen module keeps the spatial size and
\* returns its declared channel count.
ChangeChannels(t) == Tensor(t.b, change_channels, t.h, t.w)

\* Image batches the loaders deliver: [B, 3, h, w].
Images == {Tensor(BatchSize, ImageChannels, h, w) : h \in Sizes \cup {OutSz}, w \in {OutSz}}
              \cup {Tensor(BatchSize, ImageChannels, s, s) : s \in StepSizes}

\* training_step / validation_step on batch img (the two bodies are the
\* same up to the name of the logged scalar).  Calling a change_channels
\* that is None raises TypeError.
DirectStep(name, img, tv) ==
    /\ op' = name
    /\ x' = img
    /\ res' = IF encoding_layer = "None"
              THEN [NoRes EXCEPT !.err = "none_not_callable"]
              ELSE Reconstruct(tv, ChangeChannels(img), img)
    /\ enc_ftrs' = NoTensor
    /\ ganRes' = <<>>
    /\ UNCHANGED <<enc_chs, dec_chs, change_channels>>

TrainingStep ==
    /\ \E img \in Images, tv \in TorchvisionBuilds :
          DirectStep("training_step", img, tv)
    /\ UNCHANGED <<trainVars, drvVars>>

ValidationStep ==
    /\ \E img \in Images, tv \in TorchvisionBuilds :
          DirectStep("validation_step", img, tv)
    /\ UNCHANGED <<trainVars, drvVars>>

\* A faulty UnpackGan: the third target (thetas) taken for the encoded
\* feature.
UnpackGanThird(tuple) ==
    IF Len(tuple) # 5 THEN Fail("unpack_error") ELSE Ok(tuple[3])

\* _, encoded_x, thetas, _, _ = self.gan(x): exactly five targets.
UnpackGan(tuple) ==
    IF Len(tuple) # 5 THEN Fail("unpack_error") ELSE Ok(tuple[2])

\* hoi = nn.ConvTranspose2d(6,3,1): kernel 1, stride 1 keeps the size.
Hoi(t) ==
    IF t.c # HoiIn THEN Fail("channel_mismatch")
    ELSE Ok(Tensor(t.b, HoiOut, t.h, t.w))

\* What an upstream generator may hand back: tensors of the batch.
GanFeats == {Tensor(BatchSize, HoiIn, GanFeatSize, GanFeatSize),
             Tensor(BatchSize, ImageChannels, OutSz, OutSz)}

\* Tuples of 4..6 elements <<first, encoded_x, thetas, rest, rest, ..>>.
GanTuples ==
    {[i \in 1..n |-> IF i = 1 THEN a ELSE IF i = 2 THEN e
                     ELSE IF i = 3 THEN th ELSE a] :
        n \in 4..6, a \in GanFeats, e \in GanFeats, th \in GanFeats}

TestImages == {Tensor(BatchSize, ImageChannels, s, s) : s \in {1, GanFeatSize, OutSz}}

TestStep ==
    \E img \in TestImages, tuple \in GanTuples, tv \in TorchvisionBuilds :
        LET u == UnpackGan(tuple)
            h == IF u.err # "none" THEN u ELSE Hoi(u.t)
        IN  /\ op' = "test_step"
            /\ x' = img
            /\ ganRes' = tuple
            /\ res' = IF gan = "None"
                      THEN [NoRes EXCEPT !.err = "none_not_callable"]
                      ELSE IF h.err # "none" THEN [NoRes EXCEPT !.err = h.err]
                      ELSE Reconstruct(tv, Upsample(h.t), img)
            /\ enc_ftrs' = NoTensor
            /\ UNCHANGED <<enc_chs, dec_chs, change_channels>>
            /\ UNCHANGED <<trainVars, drvVars>>

Init ==
    /\ \E n \in 1..MaxStages, c0 \in InChannels :
          /\ enc_chs = EncSchedule(c0, n)
          /\ \E m \in 0..(n - 1) : dec_chs = DecSchedule(enc_chs, m)
    /\ change_channels \in InChannels
    /\ op = "none"
    /\ x = NoTensor
    /\ enc_ftrs = NoTensor
    /\ ganRes = <<>>
    /\ res = NoRes
    /\ TrainIdle

Next == TrainingStep \/ ValidationStep \/ TestStep

Spec == Init /\ [][Next]_vars

(***************************************************************************)
(* Specification of direct Encoder calls                                   *)
(***************************************************************************)
InitEncoder ==
    /\ \E n \in 1..MaxStages, c0 \in InChannels : enc_chs = EncSchedule(c0, n)
    /\ dec_chs = DecSchedule(enc_chs, NumBlocks(enc_chs) - 1)
    /\ change_channels = DefaultInCh
    /\ op = "none"
    /\ x = NoTensor
    /\ enc_ftrs = NoTensor
    /\ ganRes = <<>>
    /\ res = NoRes
    /\ TrainIdle

\* encoder(x) for any batch x.
EncoderCall ==
    \E c \in InChannels, h \in Sizes, w \in Sizes :
        LET t == Tensor(BatchSize, c, h, w)
            r == EncoderForward(enc_chs, t)
        IN  /\ op' = "encoder"
            /\ x' = t
            /\ res' = [NoRes EXCEPT !.err = r.err, !.ftrs = r.ftrs]
            /\ UNCHANGED <<enc_chs, dec_chs, change_channels, enc_ftrs, ganRes>>
            /\ UNCHANGED <<trainVars, drvVars>>

NextEncoder == EncoderCall

SpecEncoder == InitEncoder /\ [][NextEncoder]_vars

(***************************************************************************)
(* Specification of direct Decoder.crop calls                              *)
(***************************************************************************)
\* The arguments: an encoder feature and an upsampled tensor of any sizes.
InitCrop ==
    /\ enc_chs = DefaultEncChs
    /\ dec_chs = DefaultDecChs
    /\ change_channels = DefaultInCh
    /\ op = "none"
    /\ \E h \in Sizes, w \in Sizes : x = Tensor(BatchSize, BaseCh, h, w)
    /\ \E h \in Sizes, w \in Sizes : enc_ftrs = Tensor(BatchSize, BaseCh, h, w)
    /\ ganRes = <<>>
    /\ res = NoRes
    /\ TrainIdle

\* decoder.crop(enc_ftrs, x)
CropCall ==
    /\ op = "none"
    /\ \E tv \in TorchvisionBuilds :
          LET r == crop(tv, enc_ftrs, x)
          IN  res' = [NoRes EXCEPT !.out = r.t, !.top = r.top, !.left = r.left,
                                   !.padded = r.padded]
    /\ op' = "crop"
    /\ UNCHANGED <<enc_chs, dec_chs, change_channels, x, enc_ftrs, ganRes>>
    /\ UNCHANGED <<trainVars, drvVars>>

NextCrop == CropCall

SpecCrop == InitCrop /\ [][NextCrop]_vars

(***************************************************************************)
(* Specification of a fit: trainer.fit(model, trainloader, valloader)      *)
(* driving configure_optimizers, training_step, backward, the optimizer    *)
(* step and validation_step.                                               *)
(***************************************************************************)
InitTrain ==
    /\ enc_chs = DefaultEncChs
    /\ dec_chs = DefaultDecChs
    /\ change_channels = DefaultInCh
    /\ op = "none"
    /\ x = NoTensor
    /\ enc_ftrs = NoTensor
    /\ ganRes = <<>>
    /\ res = NoRes
    /\ gan \in {"None", "module"}
    /\ encoding_layer \in {"None", "module"}
    /\ optimizer = {}
    /\ value = [g \in Groups |-> 0]
    /\ grad = {}
    /\ tpc = "init"
    /\ steps = 0
    /\ DriverOff

\* configure_optimizers: torch.optim.Adam(self.parameters(), lr=self.lr)
ConfigureOptimizers ==
    /\ tpc = "init"
    /\ optimizer' = Parameters
    /\ tpc' = "ready"
    /\ UNCHANGED <<netVars, gan, encoding_layer, value, grad, steps, drvVars>>

\* A faulty GraphGroups: change_channels applied outside torch.no_grad().
GraphGroupsNoGuard == Trainable \cup {"change_channels"}

\* The parameter groups in the autograd graph of training_step's loss:
\* encoder, decoder and head.  change_channels runs under torch.no_grad()
\* and self.gan is not called.
GraphGroups == Trainable

\* training_step on a batch of the train loader; a raised error ends the fit.
FitTrainingStep ==
    /\ tpc = "ready"
    /\ steps < MaxSteps
    /\ \E img \in Images, tv \in TorchvisionBuilds :
          DirectStep("training_step", img, tv)
    /\ tpc' = IF res'.err = "none" THEN "loss" ELSE "failed"
    /\ UNCHANGED <<gan, encoding_layer, optimizer, value, grad, steps, drvVars>>

\* loss.backward(): every parameter of the graph that requires grad gets one.
Backward ==
    /\ tpc = "loss"
    /\ grad' = grad \cup {g \in GraphGroups \cap Registered : RequiresGrad(g)}
    /\ tpc' = "grads"
    /\ UNCHANGED <<netVars, gan, encoding_layer, optimizer, value, steps, drvVars>>

\* Adam.step() updates the parameters it was given whose .grad is set and
\* skips the others; the gradients are then zeroed.
OptimizerStep ==
    /\ tpc = "grads"
    /\ value' = [g \in Groups |->
                    IF g \in optimizer /\ g \in grad THEN value[g] + 1 ELSE value[g]]
    /\ grad' = {}
    /\ steps' = steps + 1
    /\ tpc' = "ready"
    /\ UNCHANGED <<netVars, gan, encoding_layer, optimizer, drvVars>>

\* validation_step on a batch of the validation loader: no backward follows.
FitValidationStep ==
    /\ tpc = "ready"
    /\ \E img \in Images, tv \in TorchvisionBuilds :
          DirectStep("validation_step", img, tv)
    /\ tpc' = IF res'.err = "none" THEN "ready" ELSE "failed"
    /\ UNCHANGED <<gan, encoding_layer, optimizer, value, grad, steps, drvVars>>

NextTrain ==
    \/ ConfigureOptimizers
    \/ FitTrainingStep
    \/ Backward
    \/ OptimizerStep
    \/ FitValidationStep

SpecTrain == InitTrain /\ [][NextTrain]_vars

(***************************************************************************)
(* Specification of the driver: one run of train_model(args)               *)
(***************************************************************************)
Absent == 0 - 1

\* A checkpoints directory: Absent, or the number of regular files in it
\* (sub-directories are filtered out by isfile and do not count).
DirStates == {Absent} \cup (0..MaxFiles)

\* gan_model_dict and dataset_dict, and the names the parser lets through.
GanModels == {"Complex_LeNet", "Complex_AlexNet", "Complex_ResNet-56",
              "Complex_ResNet-110"}

GanModelChoices == {"Complex_LeNet", "Complex_VGG16"}

DatasetChoices == {"CIFAR-10", "CIFAR-100", "CelebA"}

InitDriver ==
    /\ enc_chs = DefaultEncChs
    /\ dec_chs = DefaultDecChs
    /\ change_channels = DefaultInCh
    /\ op = "none"
    /\ x = NoTensor
    /\ enc_ftrs = NoTensor
    /\ ganRes = <<>>
    /\ res = NoRes
    /\ gan = "None"
    /\ encoding_layer = "None"
    /\ optimizer = {}
    /\ value = [g \in Groups |-> 0]
    /\ grad = {}
    /\ tpc = "idle"
    /\ steps = 0
    /\ args \in [training : BOOLEAN, progress_bar : BOOLEAN,
                 load_gan : {"None", "dir"}, load_dict : {"None", "dir"},
                 gan_model : GanModelChoices, dataset : DatasetChoices]
    /\ fs \in [gan : DirStates, dict : DirStates, gan_loads : BOOLEAN]
    /\ pc = "start"
    /\ err = NoErr
    /\ generator = "unset"
    /\ gan_last_ckpt = 0
    /\ called = <<>>

Raise(kind, line, path) ==
    /\ pc' = "error"
    /\ err' = [kind |-> kind, line |-> line, path |-> path]

\* os.makedirs(args.log_dir, exist_ok=True)
MakeLogDir ==
    /\ pc = "start"
    /\ pc' = "load_data"
    /\ UNCHANGED <<netVars, trainVars, args, fs, err, generator, gan_last_ckpt, called>>

\* load_data_fn(args.dataset, args.batch_size, args.num_workers).  The
\* CIFAR-100 loader is load_data(), called with two arguments: TypeError.
\* The other loaders are not part of these sources; they return.
LoadData ==
    /\ pc = "load_data"
    /\ IF args.dataset = "CIFAR-100"
       THEN Raise("TypeError", 197, FALSE)
       ELSE pc' = "trainer" /\ UNCHANGED err
    /\ UNCHANGED <<netVars, trainVars, args, fs, generator, gan_last_ckpt, called>>

\* EarlyStopping, pl.Trainer, seed_everything, device, num_classes.
InitTrainer ==
    /\ pc = "trainer"
    /\ pc' = IF args.training THEN "no_generator" ELSE "gan_init"
    /\ UNCHANGED <<netVars, trainVars, args, fs, err, generator, gan_last_ckpt, called>>

\* initialize_gan_model: a name outside gan_model_dict fails the assert.
GanInit ==
    /\ pc = "gan_init"
    /\ IF args.gan_model \in GanModels
       THEN pc' = "gan_select" /\ UNCHANGED err
       ELSE Raise("AssertionError", 183, FALSE)
    /\ UNCHANGED <<netVars, trainVars, args, fs, generator, gan_last_ckpt, called>>

\* [f for f in listdir(d) if isfile(join(d, f))][-1:][0] on a directory in
\* state dir: listdir raises FileNotFoundError, which names the path, on an
\* absent directory; an empty selection raises IndexError ("list index out
\* of range"), which names nothing; else the file listdir happens to list
\* last is taken.
Selects(dir, k) == dir # Absent /\ k \in 1..dir

SelectError(dir) ==
    IF dir = Absent THEN [kind |-> "FileNotFoundError", path |-> TRUE]
    ELSE [kind |-> "IndexError", path |-> FALSE]

\* gan_model_dir = args.load_gan up to gan_checkpoint_path: None + str is a
\* TypeError.
GanSelect ==
    /\ pc = "gan_select"
    /\ IF args.load_gan = "None"
       THEN Raise("TypeError", 119, FALSE) /\ UNCHANGED gan_last_ckpt
       ELSE IF fs.gan = Absent \/ fs.gan = 0
       THEN /\ Raise(SelectError(fs.gan).kind, 120, SelectError(fs.gan).path)
            /\ UNCHANGED gan_last_ckpt
       ELSE /\ \E k \in 1..MaxFiles : Selects(fs.gan, k) /\ gan_last_ckpt' = k
            /\ pc' = "gan_load"
            /\ UNCHANGED err
    /\ UNCHANGED <<netVars, trainVars, args, fs, generator, called>>

\* gan_model.load_from_checkpoint(...); generator = gan_model.encoder.generator
GanLoad ==
    /\ pc = "gan_load"
    /\ called' = Append(called, "gan.load_from_checkpoint")
    /\ IF fs.gan_loads
       THEN pc' = "construct" /\ generator' = "module" /\ UNCHANGED err
       ELSE Raise("CheckpointError", 123, TRUE) /\ UNCHANGED generator
    /\ UNCHANGED <<netVars, trainVars, args, fs, gan_last_ckpt>>

\* else: generator = None
NoGenerator ==
    /\ pc = "no_generator"
    /\ generator' = "None"
    /\ pc' = "construct"
    /\ UNCHANGED <<netVars, trainVars, args, fs, err, gan_last_ckpt, called>>

\* UNet.__init__(self, generator, encoding_layer, enc_chs=..., ...): the
\* parameters without a default.
UNetRequired == {"generator", "encoding_layer"}

\* UNet(generator=generator, num_classes=num_classes, lr=args.lr)
UNetPassed == {"generator", "num_classes", "lr"}

\* model = UNet(...): a required parameter that is not passed is a
\* TypeError, raised before __init__ runs.
Construct ==
    /\ pc = "construct"
    /\ IF UNetRequired \subseteq UNetPassed
       THEN /\ pc' = IF args.load_dict # "None" THEN "load_dict" ELSE "fit"
            /\ gan' = generator
            /\ UNCHANGED err
       ELSE Raise("TypeError", 131, FALSE) /\ UNCHANGED gan
    /\ called' = Append(called, "UNet")
    /\ UNCHANGED <<netVars, encoding_layer, optimizer, value, grad, tpc, steps,
                   args, fs, generator, gan_last_ckpt>>

\* if args.load_dict is not None: select the checkpoint, load_from_checkpoint,
\* model.gan = generator, trainer.test(...).  No run gets here: Construct
\* raises in every run, so this action is not part of NextDriver.
LoadAndTest ==
    /\ pc = "load_dict"
    /\ IF fs.dict = Absent \/ fs.dict = 0
       THEN /\ Raise(SelectError(fs.dict).kind, 138, SelectError(fs.dict).path)
            /\ UNCHANGED <<gan, called>>
       ELSE /\ pc' = "done"
            /\ gan' = generator
            /\ called' = called \o <<"load_from_checkpoint", "gan_swap", "test">>
            /\ UNCHANGED err
    /\ UNCHANGED <<netVars, encoding_layer, optimizer, value, grad, tpc, steps,
                   args, fs, generator, gan_last_ckpt>>

\* else: trainer.fit(model, trainloader, valloader), torch.save(...).  Not
\* part of NextDriver either, for the same reason.
FitAndSave ==
    /\ pc = "fit"
    /\ pc' = "done"
    /\ called' = Append(called, "fit")
    /\ UNCHANGED <<netVars, trainVars, args, fs, err, generator, gan_last_ckpt>>

NextDriver ==
    \/ MakeLogDir
    \/ LoadData
    \/ InitTrainer
    \/ GanInit
    \/ GanSelect
    \/ GanLoad
    \/ NoGenerator
    \/ Construct

SpecDriver == InitDriver /\ [][NextDriver]_vars

(***************************************************************************)
(* Properties                                                              *)
(***************************************************************************)
Divides(k, s) == s % k = 0

DirectOps == {"training_step", "validation_step"}

StepOps == DirectOps \cup {"test_step"}

\* ftrs is the pyramid of input t under schedule chs: exactly one map per
\* transition, finest first, map i (0-based) of size S / 2^i with chs[i+1]
\* channels, recorded at list position i.
IsPyramid(chs, t, ftrs) ==
    /\ Len(ftrs) = NumBlocks(chs)
    /\ \A i \in 1..Len(ftrs) :
          /\ ftrs[i].h * Pow2(i - 1) = t.h
          /\ ftrs[i].w * Pow2(i - 1) = t.w
          /\ ftrs[i].c = chs[i + 1]
          /\ ftrs[i].id = i - 1
          /\ ftrs[i].b = t.b

\* C1: for every channel schedule and every input (with the schedule's input
\* channel count) whose spatial size is divisible by 2^(n-1), Encoder.forward
\* returns exactly n feature maps, finest to coarsest, the i-th of spatial
\* size S/2^i and of channel count chs[i+1].
C1_EncoderPyramid ==
    (/\ op = "encoder"
     /\ x.c = enc_chs[1]
     /\ Divides(Pow2(NumBlocks(enc_chs) - 1), x.h)
     /\ Divides(Pow2(NumBlocks(enc_chs) - 1), x.w))
    => (res.err = "none" /\ IsPyramid(enc_chs, x, res.ftrs))

\* The same statement for inputs the trailing pool of the last stage can
\* still halve (S >= 2^n): the part of C1 the code does deliver.
EncoderPyramidWhenPoolable ==
    (/\ op = "encoder"
     /\ x.c = enc_chs[1]
     /\ Divides(Pow2(NumBlocks(enc_chs) - 1), x.h)
     /\ Divides(Pow2(NumBlocks(enc_chs) - 1), x.w)
     /\ x.h >= Pow2(NumBlocks(enc_chs))
     /\ x.w >= Pow2(NumBlocks(enc_chs)))
    => (res.err = "none" /\ IsPyramid(enc_chs, x, res.ftrs))

\* The encoder/decoder schedules match: the decoder has n-1 stages.
Matching == Len(dec_chs) = NumBlocks(enc_chs)

\* C2: round trip.  With matching schedules and an input whose spatial size
\* is divisible by 2^(n-1), the Encoder's pyramid fed to the Decoder yields
\* an output of the finest pyramid entry's spatial size (the input's).
C2_RoundTripShape ==
    (/\ op \in DirectOps
     /\ Matching
     /\ change_channels = enc_chs[1]
     /\ Divides(Pow2(NumBlocks(enc_chs) - 1), x.h)
     /\ Divides(Pow2(NumBlocks(enc_chs) - 1), x.w))
    => (/\ res.dec # NoTensor
        /\ Len(res.ftrs) >= 1
        /\ res.dec.h = res.ftrs[1].h /\ res.dec.w = res.ftrs[1].w
        /\ res.dec.h = x.h /\ res.dec.w = x.w)

\* The round trip for inputs the Encoder accepts (S >= 2^n).
RoundTripWhenPoolable ==
    (/\ op \in DirectOps
     /\ Matching
     /\ change_channels = enc_chs[1]
     /\ Divides(Pow2(NumBlocks(enc_chs) - 1), x.h)
     /\ Divides(Pow2(NumBlocks(enc_chs) - 1), x.w)
     /\ x.h >= Pow2(NumBlocks(enc_chs))
     /\ x.w >= Pow2(NumBlocks(enc_chs)))
    => (/\ res.dec # NoTensor
        /\ res.dec.h = x.h /\ res.dec.w = x.w)

DefaultSchedules == enc_chs = DefaultEncChs /\ dec_chs = DefaultDecChs

\* C5: GAN-feature mode.  With the default schedules, a generator result
\* whose encoded feature is [4,6,16,16] goes through channel reduction,
\* upsample to 32x32, Encoder, Decoder and Head without shape error and
\* gives a [4,3,32,32] reconstruction.
C5_GanFeatureEndToEnd ==
    (/\ op = "test_step"
     /\ DefaultSchedules
     /\ Len(ganRes) = 5
     /\ ganRes[2] = Tensor(BatchSize, HoiIn, GanFeatSize, GanFeatSize)
     /\ x = Tensor(BatchSize, ImageChannels, OutSz, OutSz))
    => (res.err = "none" /\ res.out = Tensor(BatchSize, ImageChannels, OutSz, OutSz))

\* C6: direct mode.  With the default schedules and a channel-remapping
\* module that outputs 6 channels, a batch [B,3,32,32] flows through
\* Encoder, Decoder, Head and resize without shape error and the
\* reconstruction has the batch's own shape [B,3,32,32].
C6_DirectEndToEnd ==
    (/\ op \in DirectOps
     /\ DefaultSchedules
     /\ change_channels = DefaultInCh
     /\ x.c = ImageChannels /\ x.h = OutSz /\ x.w = OutSz)
    => (/\ res.err = "none"
        /\ res.out = x
        /\ res.out = Tensor(x.b, ImageChannels, OutSz, OutSz))

C6_Witness ==
    /\ op = "training_step"
    /\ DefaultSchedules
    /\ change_channels = DefaultInCh
    /\ x = Tensor(BatchSize, ImageChannels, OutSz, OutSz)
    /\ res.err = "none"
    /\ res.out = Tensor(BatchSize, ImageChannels, OutSz, OutSz)

\* C9 as claimed: test_step accepts every generator result of four or more
\* elements (the unpacking never fails on one).
C9_AcceptsFourOrMore ==
    (op = "test_step" /\ Len(ganRes) >= 4) => res.err # "unpack_error"

\* C9 as amended: test_step accepts a generator result of exactly five
\* elements and rejects any other length at the unpacking; of a five-element
\* result only the second element decides the outcome: two consecutive test
\* steps on the same batch whose results agree in the second element end the
\* same, whatever the other elements are.
C9_FiveTupleSecondOnly ==
    [][ /\ (op' = "test_step" =>
               ((res'.err = "unpack_error") <=> (Len(ganRes') # 5)))
        /\ (/\ op = "test_step" /\ op' = "test_step"
            /\ x' = x
            /\ Len(ganRes) = 5 /\ Len(ganRes') = 5
            /\ ganRes'[2] = ganRes[2])
           => res' = res ]_vars

C9_Witness ==
    /\ op = "test_step"
    /\ Len(ganRes) = 5
    /\ ganRes[1] # ganRes[2]
    /\ ganRes[3] # ganRes[2]
    /\ res.err = "none"
    /\ res.out = x

\* C10: in the three step functions the Decoder consumes the pyramid
\* reversed: the coarsest entry (produced last) seeds it and is no skip
\* feature, stage i concatenates the entry produced at index n-2-i, and a
\* decoder of n-1 stages that completes consumes every other entry once.
C10_ReversedConsumption ==
    (op \in StepOps /\ res.ftrs # <<>>) =>
        LET n == Len(res.ftrs)
        IN  /\ res.seed = n - 1
            /\ \A i \in 1..Len(res.skips) :
                  /\ res.skips[i] = n - 2 - (i - 1)
                  /\ res.skips[i] # res.seed
            /\ (Matching /\ res.dec # NoTensor) =>
                  /\ Len(res.skips) = n - 1
                  /\ {res.skips[i] : i \in 1..Len(res.skips)} = 0..(n - 2)

C10_Witness ==
    /\ op = "test_step"
    /\ res.err = "none"
    /\ Len(res.ftrs) = 4
    /\ res.skips = <<2, 1, 0>>
    /\ res.seed = 3

\* An offset that centers a window in a dimension with d spare cells: the
\* two margins differ by at most one.
Centered(off, d) == off >= 0 /\ off <= d /\ 2 * off - d \in {0 - 1, 0, 1}

\* C3: Decoder.crop never pads.  A target no larger than the encoder feature
\* comes back at exactly the target size, taken from the center; a target
\* larger in H or W makes the crop fail with a shape-mismatch error instead
\* of returning a padded tensor.
C3_CropNeverPads ==
    op = "crop" =>
        IF x.h <= enc_ftrs.h /\ x.w <= enc_ftrs.w
        THEN /\ res.err = "none"
             /\ res.out.h = x.h /\ res.out.w = x.w
             /\ ~res.padded
             /\ Centered(res.top, enc_ftrs.h - x.h)
             /\ Centered(res.left, enc_ftrs.w - x.w)
        ELSE res.err # "none" /\ ~res.padded

\* The shrinking half of C3, which the code delivers.
CropShrinksFromCenter ==
    (op = "crop" /\ x.h <= enc_ftrs.h /\ x.w <= enc_ftrs.w) =>
        /\ res.err = "none"
        /\ res.out.h = x.h /\ res.out.w = x.w
        /\ ~res.padded
        /\ Centered(res.top, enc_ftrs.h - x.h)
        /\ Centered(res.left, enc_ftrs.w - x.w)

\* C4 as claimed: the parameter set handed to the optimizer holds the
\* trainable submodules' parameters only, none of the frozen components'.
C4_OptimizerOnlyTrainable ==
    tpc # "init" => (optimizer = Trainable /\ optimizer \cap Frozen = {})

\* C4 as amended: configure_optimizers hands the optimizer self.parameters(),
\* the parameters of every registered submodule, the frozen components'
\* included whenever they are set; all the same, after any sequence of
\* optimizer steps the frozen parameters have their load-time values, since
\* none of them ever holds a gradient.
C4_FrozenNeverUpdated ==
    /\ tpc # "init" =>
          /\ optimizer = Parameters
          /\ (gan = "module" => "gan" \in optimizer)
          /\ (encoding_layer = "module" => "change_channels" \in optimizer)
    /\ \A g \in Frozen : value[g] = 0 /\ g \notin grad
    /\ \A g \in Trainable : value[g] = steps

C4_Witness ==
    /\ gan = "module"
    /\ encoding_layer = "module"
    /\ Frozen \subseteq optimizer
    /\ steps >= 2
    /\ \A g \in Trainable : value[g] >= 2
    /\ \A g \in Frozen : value[g] = 0

Terminated == pc \in {"done", "error"}

Count(name) == Cardinality({i \in 1..Len(called) : called[i] = name})

Before(a, b) ==
    \E i \in 1..Len(called), j \in 1..Len(called) :
        i < j /\ called[i] = a /\ called[j] = b

\* C7: in every run of train_model, with a checkpoint directory given fit is
\* never invoked and the parameters are restored, then the generator is
\* swapped in, then the test protocol runs; with none given fit runs and the
\* test protocol never does.  Exactly one of fit / test happens per run.
\* Stated for the runs that get as far as building the model (a run ended
\* earlier by an unusable dataset or upstream checkpoint is left aside).
C7_ExactlyOneOfFitOrTest ==
    (Terminated /\ Count("UNet") = 1) =>
        /\ Count("fit") + Count("test") = 1
        /\ args.load_dict # "None" =>
              /\ Count("fit") = 0
              /\ Before("load_from_checkpoint", "gan_swap")
              /\ Before("gan_swap", "test")
        /\ args.load_dict = "None" => (Count("fit") = 1 /\ Count("test") = 0)

\* A checkpoint the run needs cannot be selected: its directory is absent or
\* holds no regular file.
Unselectable(dir) == dir = Absent \/ dir = 0

\* C8: in load-only mode, whenever no checkpoint file can be selected,
\* train_model terminates with a fatal error that reports the missing path,
\* and neither load_from_checkpoint nor the test protocol is executed.
\* Stated for the runs that end at the selection of a checkpoint (lines 120
\* and 138).
C8_MissingCheckpointReportsPath ==
    (/\ Terminated
     /\ args.load_dict # "None"
     /\ \/ Unselectable(fs.dict)
        \/ (~args.training /\ args.load_gan # "None" /\ Unselectable(fs.gan))
     /\ err.line \in {120, 138})
    => (/\ pc = "error"
        /\ err.path
        /\ Count("load_from_checkpoint") = 0
        /\ Count("gan.load_from_checkpoint") = 0
        /\ Count("test") = 0)

\* The mode a run of train_model commits to: `if args.load_dict is not None`
\* leads to trainer.test (test steps), the else branch to trainer.fit
\* (training and validation steps).
ModeOf == IF args.load_dict # "None" THEN "test" ELSE "fit"

\* The frozen collaborator the steps of a mode call: training_step and
\* validation_step call self.change_channels (the encoding_layer argument),
\* test_step calls self.gan (the generator argument).
Needs(mode) == IF mode = "fit" THEN {"encoding_layer"} ELSE {"generator"}

\* The collaborators the driver hands to the model it builds: the keyword
\* arguments of the UNet(...) call that are not None.  `generator` is also
\* what line 147 assigns to model.gan.
Handed ==
    {k \in UNetPassed \cap UNetRequired : k = "generator" => generator = "module"}

====
